---- MODULE Spec2Model ----
(***************************************************************************)
(* Car inventory backend: the car-record lifecycle (create, read, update,  *)
(* soft delete, hard delete), the list/search query engine and the photo   *)
(* asset store, user registration and the brand catalogs, as request       *)
(* handlers interleaved at their awaits.                                   *)
(*                                                                         *)
(* Conventions                                                             *)
(*  - a string of the program is a sequence of one-character strings;      *)
(*  - a nullable field is None (null) or Some(v);                          *)
(*  - a file path is a sequence of path segments;                          *)
(*  - the document path "año" of the schema is written ano, the name       *)
(*    "anio" of the DTO types and of the tests is written anio.            *)
(***************************************************************************)
EXTENDS Integers, Sequences, FiniteSets, TLC

VARIABLES
    cars,       \* the cars collection: _id -> document
    files,      \* the file system: set of absolute paths of regular files
    now,        \* the clock new Date() reads
    nextId,     \* source of fresh ObjectIds
    nextFile,   \* source of fresh multer file names
    pc,         \* per request handler: the call in flight and what it holds
    resp,       \* the response sent last, with the handler that sent it
    deleted200, \* per _id: how many DELETE requests were answered 200 so far
    users,      \* the users collection, in insertion order
    catalogs,   \* the catalogs collection, in insertion order
    initialized \* how many initializeCatalogs calls have returned so far

vars == <<cars, files, now, nextId, nextFile, pc, resp, deleted200,
         users, catalogs, initialized>>

(***************************************************************************)
(* Bounds of the model.                                                    *)
(***************************************************************************)
MaxCars == 1
MaxFiles == 2
MaxClock == 1

Procs == {"h1", "h2"}

(***************************************************************************)
(* Nullable values.                                                        *)
(***************************************************************************)
None == <<>>
Some(v) == <<v>>
IsSome(o) == o /= None
Get(o) == o[1]

Min(a, b) == IF a <= b THEN a ELSE b

\* the instants a clock read can return at or after t (the clock may advance
\* between two statements of one continuation)
Reads(t) == t .. Min(t + 1, MaxClock)

(***************************************************************************)
(* The asset store (upload.middleware.ts).                                 *)
(***************************************************************************)
uploadsDir == <<"app", "src", "uploads">>

\* path.basename of a path given as its segments
Basename(p) == IF p = <<>> THEN "" ELSE p[Len(p)]

RECURSIVE Normalize(_)
\* path.normalize of an absolute path: "." and "" vanish, ".." removes the
\* segment before it
Normalize(p) ==
    IF p = <<>> THEN <<>>
    ELSE LET head == Normalize(SubSeq(p, 1, Len(p) - 1))
             last == p[Len(p)]
         IN  IF last \in {"", "."} THEN head
             ELSE IF last = ".." THEN
                      (IF head = <<>> THEN <<>> ELSE SubSeq(head, 1, Len(head) - 1))
             ELSE Append(head, last)

\* path.join(a, name)
Join(a, name) == Normalize(Append(a, name))

StartsWith(p, prefix) ==
    /\ Len(p) >= Len(prefix)
    /\ SubSeq(p, 1, Len(prefix)) = prefix

IsDirectory(p) == StartsWith(uploadsDir, p)

\* fs.existsSync
ExistsSync(fs, p) == p \in fs \/ IsDirectory(p)

\* multer's filename callback: a name never produced before
UploadName(n) == <<"f" \o ToString(n)>>

\* the identifier controllers put in data.foto for an uploaded file
\* (req.file.filename) and the path multer wrote
UploadedPath(n) == Join(uploadsDir, Basename(UploadName(n)))

\* deleteFile(filePath) on file system fs: the outcomes it can have, each the
\* file system afterwards and whether the call threw.  unlinkSync can fail
\* on a file that exists (EACCES, EBUSY, ...) and always fails on a directory.
deleteFile(fs, filePath) ==
    LET safeFilename == Basename(filePath)
        fullPath == Join(uploadsDir, safeFilename)
    IN  IF ~StartsWith(fullPath, uploadsDir)
        THEN {[fs |-> fs, threw |-> TRUE, result |-> "invalid"]}
        ELSE IF ExistsSync(fs, fullPath)
        THEN (IF IsDirectory(fullPath)
              THEN {[fs |-> fs, threw |-> TRUE, result |-> "unlinkFailed"]}
              ELSE {[fs |-> fs \ {fullPath}, threw |-> FALSE, result |-> "removed"],
                    [fs |-> fs, threw |-> TRUE, result |-> "unlinkFailed"]})
        ELSE {[fs |-> fs, threw |-> FALSE, result |-> "missing"]}

(***************************************************************************)
(* Documents of the cars collection (models/Car, carSchema).               *)
(***************************************************************************)
CarPaths == {"marca", "modelo", "ano", "precio", "kilometraje", "color",
             "email", "telefono", "foto",
             "fechaAlta", "fechaModificacion", "fechaEliminacion", "isDeleted"}

NullablePaths == {"color", "foto", "fechaEliminacion"}

\* the value a path takes when a request value is set on it
Cast(path, v) == IF path \in NullablePaths THEN Some(v) ELSE v

\* new Car(carData): schema paths only (strict), defaults for the absent ones
NewCar(carData) ==
    [path \in CarPaths |->
        IF path \in DOMAIN carData THEN Cast(path, carData[path])
        ELSE IF path \in NullablePaths THEN None
        ELSE IF path = "isDeleted" THEN FALSE
        ELSE carData.fechaAlta]

\* an assignment that replaces the document: the nullable paths the data
\* omits are cleared
Assign_replaces(car, data) ==
    [path \in CarPaths |->
        IF path \in DOMAIN data THEN Cast(path, data[path])
        ELSE IF path \in NullablePaths THEN None
        ELSE car[path]]

\* Object.assign(car, data) on a loaded document
Assign(car, data) ==
    [path \in CarPaths |->
        IF path \in DOMAIN data THEN Cast(path, data[path]) ELSE car[path]]

\* carSchema.pre('save'): a modified document that is not new is re-stamped
PreSave(loaded, car, t) ==
    IF car /= loaded THEN [car EXCEPT !.fechaModificacion = t] ELSE car

\* the paths document.save() sends in $set: those whose value differs from the
\* value loaded
ModifiedPaths(loaded, car) == {path \in CarPaths : car[path] /= loaded[path]}

\* the stored document after updateOne({_id}, {$set: modified paths})
ApplySet(stored, loaded, car) ==
    [path \in CarPaths |->
        IF path \in ModifiedPaths(loaded, car) THEN car[path] ELSE stored[path]]

\* a JavaScript truthiness test of a nullable string
Truthy(o) == IsSome(o) /\ Get(o) /= <<>>

\* a lookup by _id alone, without isDeleted: false
IsActive_anyState(store, id) == id \in DOMAIN store

\* findOne({ _id: id, isDeleted: false }) finds a document
IsActive(store, id) == id \in DOMAIN store /\ ~store[id].isDeleted

\* f with x mapped to v (x may be new to the domain)
Put(f, x, v) == [y \in DOMAIN f \cup {x} |-> IF y = x THEN v ELSE f[y]]

\* f without x
Drop(f, x) == [y \in DOMAIN f \ {x} |-> f[y]]

\* {...a, ...b}
Spread(a, b) == [k \in DOMAIN a \cup DOMAIN b |-> IF k \in DOMAIN b THEN b[k] ELSE a[k]]

Idle == [op |-> "idle"]

Ids == 1 .. MaxCars

NotFoundMessage == "Auto no encontrado"

\* what a handler sends: successResponse / errorResponse of the controller,
\* with the outcome of the photo cleanup the handler logged
Response(op, status, id, message, cleanup) ==
    [op |-> op, status |-> status, id |-> id, message |-> message, cleanup |-> cleanup]

NoResponse == Response("none", 0, 0, "", "none")

\* the service threw Error('Auto no encontrado'): errorResponse(res, 404, ...)
NotFound(op, id) == Response(op, 404, id, NotFoundMessage, "none")

\* the service threw anything else: errorResponse(res, 500, ...)
ServerError(op, id, message, cleanup) == Response(op, 500, id, message, cleanup)

(***************************************************************************)
(* Requests.  Bodies and queries reach the controllers as the validators   *)
(* let them through: the validators check the fields they name and leave   *)
(* every other field of the body in place.                                 *)
(***************************************************************************)
Toyota == <<"T", "o">>
Honda == <<"H", "o">>
Corolla == <<"C", "o">>
Civic == <<"C", "i">>
Rojo == <<"R", "o">>
Email == <<"a", "@", "b">>
Telefono == <<"5", "5">>

BaseBody ==
    [marca |-> Toyota, modelo |-> Corolla, ano |-> 2020, precio |-> 2, kilometraje |-> 100,
     email |-> Email, telefono |-> Telefono]

\* bodies of POST /api/cars that pass createCarValidations
CreateBodies ==
    { BaseBody,
      Spread(BaseBody, [fechaEliminacion |-> 0, isDeleted |-> TRUE]) }

\* bodies of PUT /api/cars/:id that pass updateCarValidations
UpdateBodies ==
    { [precio |-> 3],
      [isDeleted |-> TRUE],
      [isDeleted |-> FALSE] }

(***************************************************************************)
(* Initial state: an empty collection and an empty uploads directory.      *)
(***************************************************************************)
Init ==
    /\ cars = <<>>
    /\ files = {}
    /\ now = 0
    /\ nextId = 1
    /\ nextFile = 1
    /\ pc = [p \in Procs |-> Idle]
    /\ resp = NoResponse
    /\ deleted200 = [id \in Ids |-> 0]
    /\ users = <<>>
    /\ catalogs = <<>>
    /\ initialized = 0

\* time passes
Tick ==
    /\ now < MaxClock
    /\ now' = now + 1
    /\ UNCHANGED <<cars, files, nextId, nextFile, pc, resp, deleted200,
                   users, catalogs, initialized>>

(***************************************************************************)
(* POST /api/cars: uploadSingle, CarController.createCar,                  *)
(* CarService.createCar.                                                   *)
(***************************************************************************)
\* what the controller passes as data: the body, with the uploaded file's name
RequestData(body, withFile) ==
    IF withFile THEN Spread(body, [foto |-> UploadName(nextFile)]) ELSE body

\* the document createCar builds: the body, over it the two clock reads and
\* isDeleted: false, then the schema defaults
Created(data, t1, t2) ==
    NewCar(Spread(data, [fechaAlta |-> t1, fechaModificacion |-> t2, isDeleted |-> FALSE]))

createCar(p, body, withFile) ==
    /\ pc[p] = Idle
    /\ nextId <= MaxCars
    /\ withFile => nextFile <= MaxFiles
    /\ \E t1 \in Reads(now) : \E t2 \in Reads(t1) :
        /\ cars' = Put(cars, nextId, Created(RequestData(body, withFile), t1, t2))
        /\ now' = t2
    /\ files' = IF withFile THEN files \cup {UploadedPath(nextFile)} ELSE files
    /\ nextFile' = IF withFile THEN nextFile + 1 ELSE nextFile
    /\ nextId' = nextId + 1
    /\ resp' = Response("createCar", 201, nextId, "Auto creado exitosamente", "none")
    /\ UNCHANGED <<pc, deleted200,
                   users, catalogs, initialized>>

(***************************************************************************)
(* GET /api/cars/:id: CarController.getCarById, CarService.getCarById.     *)
(***************************************************************************)
\* the 200 response of GET /api/cars/:id, with the document it carries
Found(id, car) ==
    [op |-> "getCarById", status |-> 200, id |-> id,
     message |-> "Auto obtenido exitosamente", cleanup |-> "none", data |-> car]

\* a lookup that tells a soft-deleted record from a missing one
getCarById_goneWhenDeleted(p, id) ==
    /\ pc[p] = Idle
    /\ resp' = IF IsActive(cars, id) THEN Found(id, cars[id])
               ELSE IF id \in DOMAIN cars
               THEN Response("getCarById", 410, id, "Auto eliminado", "none")
               ELSE NotFound("getCarById", id)
    /\ UNCHANGED <<cars, files, now, nextId, nextFile, pc, deleted200,
                   users, catalogs, initialized>>

getCarById(p, id) ==
    /\ pc[p] = Idle
    /\ resp' = IF IsActive(cars, id) THEN Found(id, cars[id]) ELSE NotFound("getCarById", id)
    /\ UNCHANGED <<cars, files, now, nextId, nextFile, pc, deleted200,
                   users, catalogs, initialized>>

(***************************************************************************)
(* DELETE /api/cars/:id: CarController.deleteCar, CarService.deleteCar.    *)
(* The handler reads with findOne, then writes with save: two store        *)
(* operations, other handlers may run between them.                        *)
(***************************************************************************)
deleteCar_findOne(p, id) ==
    /\ pc[p] = Idle
    /\ IF IsActive(cars, id)
       THEN /\ pc' = [pc EXCEPT ![p] = [op |-> "deleteCar", id |-> id, car |-> cars[id]]]
            /\ UNCHANGED resp
       ELSE /\ resp' = NotFound("deleteCar", id)
            /\ UNCHANGED pc
    /\ UNCHANGED <<cars, files, now, nextId, nextFile, deleted200,
                   users, catalogs, initialized>>

\* a soft delete that also drops the photo reference
SoftDeleted_clearsPhoto(loaded, t1, t2, t3) ==
    [loaded EXCEPT !.isDeleted = TRUE, !.fechaEliminacion = Some(t1),
                   !.fechaModificacion = t3, !.foto = None]

\* the document deleteCar holds when it calls save: lines 188-190 then the
\* pre-save hook, with the instants the three clock reads returned
SoftDeleted(loaded, t1, t2, t3) ==
    PreSave(loaded,
            [loaded EXCEPT !.isDeleted = TRUE,
                           !.fechaEliminacion = Some(t1),
                           !.fechaModificacion = t2],
            t3)

\* document.save() of a loaded document: updateOne by _id with the modified
\* paths; it throws DocumentNotFoundError when there is something to write and
\* no document has the _id
SaveFails(store, id, loaded, car) ==
    id \notin DOMAIN store /\ ModifiedPaths(loaded, car) /= {}

\* a save that writes the document back when the store has lost it
Saved_upserts(store, id, loaded, car) ==
    IF id \in DOMAIN store
    THEN [store EXCEPT ![id] = ApplySet(store[id], loaded, car)]
    ELSE Put(store, id, car)

Saved(store, id, loaded, car) ==
    IF id \in DOMAIN store
    THEN [store EXCEPT ![id] = ApplySet(store[id], loaded, car)]
    ELSE store

deleteCar_save(p) ==
    /\ pc[p].op = "deleteCar"
    /\ \E t1 \in Reads(now) : \E t2 \in Reads(t1) : \E t3 \in Reads(t2) :
        LET id == pc[p].id
            loaded == pc[p].car
            car == SoftDeleted(loaded, t1, t2, t3)
        IN  /\ now' = t3
            /\ cars' = Saved(cars, id, loaded, car)
            /\ IF SaveFails(cars, id, loaded, car)
               THEN /\ resp' = ServerError("deleteCar", id, "Failed to delete car", "none")
                    /\ UNCHANGED deleted200
               ELSE /\ resp' = Response("deleteCar", 200, id,
                                        "Auto eliminado exitosamente", "none")
                    /\ deleted200' = [deleted200 EXCEPT ![id] = @ + 1]
    /\ pc' = [pc EXCEPT ![p] = Idle]
    /\ UNCHANGED <<files, nextId, nextFile,
                   users, catalogs, initialized>>

(***************************************************************************)
(* PUT /api/cars/:id: uploadSingle, CarController.updateCar,               *)
(* CarService.updateCar: findOne, deleteFile of the prior photo, save.     *)
(***************************************************************************)
\* line 155: a new photo, a prior photo, and they differ
ReplacesPhoto(car, data) ==
    /\ "foto" \in DOMAIN data
    /\ data.foto /= <<>>
    /\ Truthy(car.foto)
    /\ data.foto /= Get(car.foto)

updateCar_findOne(p, id, body, withFile) ==
    /\ pc[p] = Idle
    /\ withFile => nextFile <= MaxFiles
    /\ files' = IF withFile THEN files \cup {UploadedPath(nextFile)} ELSE files
    /\ nextFile' = IF withFile THEN nextFile + 1 ELSE nextFile
    /\ IF IsActive(cars, id)
       THEN /\ pc' = [pc EXCEPT ![p] =
                        [op |-> "updateCar",
                         step |-> IF ReplacesPhoto(cars[id], RequestData(body, withFile))
                                  THEN "deleteFile" ELSE "save",
                         id |-> id, car |-> cars[id],
                         data |-> RequestData(body, withFile), cleanup |-> "none"]]
            /\ UNCHANGED resp
       ELSE /\ resp' = NotFound("updateCar", id)
            /\ UNCHANGED pc
    /\ UNCHANGED <<cars, now, nextId, deleted200,
                   users, catalogs, initialized>>

\* the cleanup without its try/catch: a throw of deleteFile ends the request
updateCar_deleteFile_uncaught(p) ==
    /\ pc[p].op = "updateCar"
    /\ pc[p].step = "deleteFile"
    /\ \E out \in deleteFile(files, Get(pc[p].car.foto)) :
        /\ files' = out.fs
        /\ IF out.threw
           THEN /\ pc' = [pc EXCEPT ![p] = Idle]
                /\ resp' = ServerError("updateCar", pc[p].id, "Failed to update car",
                                       out.result)
           ELSE /\ pc' = [pc EXCEPT ![p].step = "save", ![p].cleanup = out.result]
                /\ UNCHANGED resp
    /\ UNCHANGED <<cars, now, nextId, nextFile, deleted200,
                   users, catalogs, initialized>>

updateCar_deleteFile(p) ==
    /\ pc[p].op = "updateCar"
    /\ pc[p].step = "deleteFile"
    /\ \E out \in deleteFile(files, Get(pc[p].car.foto)) :
        /\ files' = out.fs
        /\ pc' = [pc EXCEPT ![p].step = "save", ![p].cleanup = out.result]
    /\ UNCHANGED <<cars, now, nextId, nextFile, resp, deleted200,
                   users, catalogs, initialized>>

\* the document updateCar holds when it calls save: lines 164-165 then the
\* pre-save hook
Updated(loaded, data, t1, t2) ==
    PreSave(loaded, [Assign(loaded, data) EXCEPT !.fechaModificacion = t1], t2)

updateCar_save(p) ==
    /\ pc[p].op = "updateCar"
    /\ pc[p].step = "save"
    /\ \E t1 \in Reads(now) : \E t2 \in Reads(t1) :
        LET id == pc[p].id
            loaded == pc[p].car
            car == Updated(loaded, pc[p].data, t1, t2)
        IN  /\ now' = t2
            /\ cars' = Saved(cars, id, loaded, car)
            /\ resp' = IF SaveFails(cars, id, loaded, car)
                       THEN ServerError("updateCar", id, "Failed to update car",
                                        pc[p].cleanup)
                       ELSE Response("updateCar", 200, id,
                                     "Auto actualizado exitosamente", pc[p].cleanup)
    /\ pc' = [pc EXCEPT ![p] = Idle]
    /\ UNCHANGED <<files, nextId, nextFile, deleted200,
                   users, catalogs, initialized>>

(***************************************************************************)
(* CarService.hardDeleteCar: findById, deleteFile of the photo,            *)
(* findByIdAndDelete.  No route reaches it; it is called on the service,   *)
(* and its outcome is written as the status a controller would map it to.  *)
(***************************************************************************)
\* a lookup that finds Active records only
hardDeleteCar_findById_activeOnly(p, id) ==
    /\ pc[p] = Idle
    /\ IF IsActive(cars, id)
       THEN /\ pc' = [pc EXCEPT ![p] =
                        [op |-> "hardDeleteCar",
                         step |-> IF Truthy(cars[id].foto) THEN "deleteFile" ELSE "delete",
                         id |-> id, car |-> cars[id], cleanup |-> "none"]]
            /\ UNCHANGED resp
       ELSE /\ resp' = NotFound("hardDeleteCar", id)
            /\ UNCHANGED pc
    /\ UNCHANGED <<cars, files, now, nextId, nextFile, deleted200,
                   users, catalogs, initialized>>

hardDeleteCar_findById(p, id) ==
    /\ pc[p] = Idle
    /\ IF id \in DOMAIN cars
       THEN /\ pc' = [pc EXCEPT ![p] =
                        [op |-> "hardDeleteCar",
                         step |-> IF Truthy(cars[id].foto) THEN "deleteFile" ELSE "delete",
                         id |-> id, car |-> cars[id], cleanup |-> "none"]]
            /\ UNCHANGED resp
       ELSE /\ resp' = NotFound("hardDeleteCar", id)
            /\ UNCHANGED pc
    /\ UNCHANGED <<cars, files, now, nextId, nextFile, deleted200,
                   users, catalogs, initialized>>

hardDeleteCar_deleteFile(p) ==
    /\ pc[p].op = "hardDeleteCar"
    /\ pc[p].step = "deleteFile"
    /\ \E out \in deleteFile(files, Get(pc[p].car.foto)) :
        /\ files' = out.fs
        /\ pc' = [pc EXCEPT ![p].step = "delete", ![p].cleanup = out.result]
    /\ UNCHANGED <<cars, now, nextId, nextFile, resp, deleted200,
                   users, catalogs, initialized>>

hardDeleteCar_findByIdAndDelete(p) ==
    /\ pc[p].op = "hardDeleteCar"
    /\ pc[p].step = "delete"
    /\ cars' = IF pc[p].id \in DOMAIN cars THEN Drop(cars, pc[p].id) ELSE cars
    /\ resp' = Response("hardDeleteCar", 200, pc[p].id, "", pc[p].cleanup)
    /\ pc' = [pc EXCEPT ![p] = Idle]
    /\ UNCHANGED <<files, now, nextId, nextFile, deleted200,
                   users, catalogs, initialized>>

(***************************************************************************)
(* GET /api/cars: CarController.getAllCars, CarService.getAllCars.         *)
(***************************************************************************)
Digits == <<"0", "1", "2", "3", "4", "5", "6", "7", "8", "9">>

DigitValue(c) == (CHOOSE i \in 1 .. 10 : Digits[i] = c) - 1

RECURSIVE ParseInt(_)
\* parseInt of a string of decimal digits
ParseInt(str) ==
    IF str = <<>> THEN 0
    ELSE 10 * ParseInt(SubSeq(str, 1, Len(str) - 1)) + DigitValue(str[Len(str)])

UpperCase == <<"A", "B", "C", "D", "E", "F", "G", "H", "I", "J", "K", "L", "M",
               "N", "O", "P", "Q", "R", "S", "T", "U", "V", "W", "X", "Y", "Z">>
LowerCase == <<"a", "b", "c", "d", "e", "f", "g", "h", "i", "j", "k", "l", "m",
               "n", "o", "p", "q", "r", "s", "t", "u", "v", "w", "x", "y", "z">>

ToLower(c) ==
    IF \E i \in 1 .. 26 : UpperCase[i] = c
    THEN LowerCase[CHOOSE i \in 1 .. 26 : UpperCase[i] = c]
    ELSE c

\* one pattern character against one character, option i; "." is the regular
\* expression wildcard
CharMatches(pc_, c) == pc_ = "." \/ ToLower(pc_) = ToLower(c)

\* { $regex: pattern, $options: 'i' } / new RegExp(pattern, 'i') on a field
\* value; null and missing values match no regular expression
RegexTest(pattern, value) ==
    /\ IsSome(value)
    /\ \E i \in 0 .. (Len(Get(value)) - Len(pattern)) :
          \A j \in 1 .. Len(pattern) : CharMatches(pattern[j], Get(value)[i + j])

\* req.query[name]: undefined when the query string does not carry the name
QueryParam(query, name) == IF name \in DOMAIN query THEN Some(query[name]) ELSE None

\* req.query[name] ? parseInt(req.query[name]) : otherwise
IntParam(query, name, otherwise) ==
    IF Truthy(QueryParam(query, name)) THEN Some(ParseInt(query[name])) ELSE otherwise

\* (req.query[name] as string) || otherwise, for the parameters whose values
\* are names (sortBy, sortOrder), written as whole strings
StringParam(query, name, otherwise) ==
    IF name \in DOMAIN query /\ query[name] /= "" THEN query[name] ELSE otherwise

\* CarController.getAllCars, lines 28-39: the filters read from the query
\* string.  The year is read under the name "año" (written ano).
Filters(query) ==
    [marca |-> QueryParam(query, "marca"),
     modelo |-> QueryParam(query, "modelo"),
     ano |-> IntParam(query, "ano", None),
     minPrecio |-> IntParam(query, "minPrecio", None),
     maxPrecio |-> IntParam(query, "maxPrecio", None),
     color |-> QueryParam(query, "color"),
     page |-> Get(IntParam(query, "page", Some(1))),
     limit |-> Get(IntParam(query, "limit", Some(10))),
     sortBy |-> StringParam(query, "sortBy", "fechaAlta"),
     sortOrder |-> StringParam(query, "sortOrder", "desc")]

\* a query that tests filters for undefined only, so that an empty string
\* becomes a clause
BuildQuery_emptyStringClauses(filters) ==
    [isDeleted |-> FALSE,
     marca |-> filters.marca,
     modelo |-> filters.modelo,
     ano |-> filters.ano,
     gte |-> filters.minPrecio,
     lte |-> filters.maxPrecio,
     color |-> filters.color]

\* CarService.getAllCars, lines 39-65: the store query built from the filters;
\* a clause that is None is not part of the query
BuildQuery(filters) ==
    [isDeleted |-> FALSE,
     marca |-> IF Truthy(filters.marca) THEN filters.marca ELSE None,
     modelo |-> IF Truthy(filters.modelo) THEN filters.modelo ELSE None,
     ano |-> IF IsSome(filters.ano) /\ Get(filters.ano) /= 0 THEN filters.ano ELSE None,
     gte |-> filters.minPrecio,
     lte |-> filters.maxPrecio,
     color |-> IF Truthy(filters.color) THEN filters.color ELSE None]

\* price bounds as $gt and $lt
Matches_strictBounds(car, query) ==
    /\ car.isDeleted = query.isDeleted
    /\ IsSome(query.marca) => RegexTest(Get(query.marca), Some(car.marca))
    /\ IsSome(query.modelo) => RegexTest(Get(query.modelo), Some(car.modelo))
    /\ IsSome(query.ano) => car.ano = Get(query.ano)
    /\ IsSome(query.gte) => car.precio > Get(query.gte)
    /\ IsSome(query.lte) => car.precio < Get(query.lte)
    /\ IsSome(query.color) => RegexTest(Get(query.color), car.color)

\* whether a stored document satisfies the store query
Matches(car, query) ==
    /\ car.isDeleted = query.isDeleted
    /\ IsSome(query.marca) => RegexTest(Get(query.marca), Some(car.marca))
    /\ IsSome(query.modelo) => RegexTest(Get(query.modelo), Some(car.modelo))
    /\ IsSome(query.ano) => car.ano = Get(query.ano)
    /\ IsSome(query.gte) => car.precio >= Get(query.gte)
    /\ IsSome(query.lte) => car.precio <= Get(query.lte)
    /\ IsSome(query.color) => RegexTest(Get(query.color), car.color)

Matching(store, query) == {id \in DOMAIN store : Matches(store[id], query)}

\* Car.countDocuments(query)
CountDocuments(store, query) == Cardinality(Matching(store, query))

\* the sequences that list each element of S once
Orders(S) == {o \in [1 .. Cardinality(S) -> S] : \A i, j \in DOMAIN o : i /= j => o[i] /= o[j]}

\* .sort({[sortBy]: dir}): the orders of ids the store may return; documents
\* with equal keys come in any order
Sorted(store, ids, sortBy, dir) ==
    {o \in Orders(ids) :
        \A i, j \in DOMAIN o :
            i < j => IF dir = 1 THEN store[o[i]][sortBy] <= store[o[j]][sortBy]
                     ELSE store[o[i]][sortBy] >= store[o[j]][sortBy]}

\* .skip(skip).limit(limit) of a sequence
Window(order, skip, limit) ==
    SubSeq(order, skip + 1, Min(skip + limit, Len(order)))

\* an offset that counts pages from 0
Skip_fromPageZero(filters) == filters.page * filters.limit

\* lines 68-73
Skip(filters) == (filters.page - 1) * filters.limit
SortDir(filters) == IF filters.sortOrder = "asc" THEN 1 ELSE -1

\* Car.find(query).sort(sort).skip(skip).limit(limit): the pages the store
\* may return
FindPages(store, filters) ==
    {Window(o, Skip(filters), filters.limit) :
        o \in Sorted(store, Matching(store, BuildQuery(filters)),
                     filters.sortBy, SortDir(filters))}

\* Math.ceil(total / limit)
TotalPages(total, limit) == (total + limit - 1) \div limit

\* the response of GET /api/cars, with the query string it answers and the
\* filters the service was called with
ListResponse(request, data, filters, total) ==
    [op |-> "getAllCars", status |-> 200, id |-> 0,
     message |-> "Autos obtenidos exitosamente", cleanup |-> "none",
     request |-> request, filters |-> filters, data |-> data,
     pagination |-> [page |-> filters.page, limit |-> filters.limit, total |-> total,
                     totalPages |-> TotalPages(total, filters.limit)]]

\* the controller has read the query string and the service has issued find and
\* countDocuments together (Promise.all); the store runs them in either order
getAllCars(p, query) ==
    /\ pc[p] = Idle
    /\ pc' = [pc EXCEPT ![p] = [op |-> "getAllCars", request |-> query,
                                filters |-> Filters(query),
                                data |-> None, total |-> None]]
    /\ UNCHANGED <<cars, files, now, nextId, nextFile, resp, deleted200,
                   users, catalogs, initialized>>

getAllCars_find(p) ==
    /\ pc[p].op = "getAllCars"
    /\ pc[p].data = None
    /\ \E data \in FindPages(cars, pc[p].filters) :
        IF IsSome(pc[p].total)
        THEN /\ resp' = ListResponse(pc[p].request, data, pc[p].filters, Get(pc[p].total))
             /\ pc' = [pc EXCEPT ![p] = Idle]
        ELSE /\ pc' = [pc EXCEPT ![p].data = Some(data)]
             /\ UNCHANGED resp
    /\ UNCHANGED <<cars, files, now, nextId, nextFile, deleted200,
                   users, catalogs, initialized>>

getAllCars_countDocuments(p) ==
    /\ pc[p].op = "getAllCars"
    /\ pc[p].total = None
    /\ LET total == CountDocuments(cars, BuildQuery(pc[p].filters))
       IN  IF IsSome(pc[p].data)
           THEN /\ resp' = ListResponse(pc[p].request, Get(pc[p].data), pc[p].filters, total)
                /\ pc' = [pc EXCEPT ![p] = Idle]
           ELSE /\ pc' = [pc EXCEPT ![p].total = Some(total)]
                /\ UNCHANGED resp
    /\ UNCHANGED <<cars, files, now, nextId, nextFile, deleted200,
                   users, catalogs, initialized>>

(***************************************************************************)
(* GET /api/cars/search: CarController.searchCars, CarService.searchCars.  *)
(***************************************************************************)
SearchLimit == 20

\* the filter of searchCars
SearchMatches(car, term) ==
    /\ ~car.isDeleted
    /\ \/ RegexTest(term, Some(car.marca))
       \/ RegexTest(term, Some(car.modelo))
       \/ RegexTest(term, car.color)

\* Car.find({...}).sort({ fechaAlta: -1 }).limit(20)
SearchResults(store, term) ==
    {Window(o, 0, SearchLimit) :
        o \in Sorted(store, {id \in DOMAIN store : SearchMatches(store[id], term)},
                     "fechaAlta", -1)}

\* new RegExp(pattern, 'i') for patterns of letters, digits, "." and "(": a
\* "(" opens a group that nothing closes, and the constructor throws
RegexCompiles(pattern) == \A i \in DOMAIN pattern : pattern[i] /= "("

\* a response of GET /api/cars/search, with the term it answers and whether
\* the collection was queried for it
SearchResponse(status, message, data, term, queried) ==
    [op |-> "searchCars", status |-> status, id |-> 0, message |-> message,
     cleanup |-> "none", data |-> data, term |-> term, queried |-> queried]

searchCars(p, query) ==
    /\ pc[p] = Idle
    /\ LET term == QueryParam(query, "q")
       IN  IF ~Truthy(term)
           THEN resp' = SearchResponse(400, "Search term is required", <<>>, term, FALSE)
           ELSE IF ~RegexCompiles(Get(term))
           THEN resp' = SearchResponse(500, "Search failed", <<>>, term, FALSE)
           ELSE \E data \in SearchResults(cars, Get(term)) :
                   resp' = SearchResponse(200, "Busqueda completada exitosamente",
                                          data, term, TRUE)
    /\ UNCHANGED <<cars, files, now, nextId, nextFile, pc, deleted200,
                   users, catalogs, initialized>>

(***************************************************************************)
(* GET /api/cars/stats: CarController.getStats, CarService.getStats.       *)
(* Numbers that need not be whole (averages) are fractions <<n, d>> in     *)
(* lowest terms.                                                           *)
(***************************************************************************)
RECURSIVE Gcd(_, _)
Gcd(a, b) == IF b = 0 THEN a ELSE Gcd(b, a % b)

Fraction(n, d) == <<n \div Gcd(n, d), d \div Gcd(n, d)>>

Zero == Fraction(0, 1)

RECURSIVE SumOf(_, _, _)
\* the sum of a numeric path over the documents ids
SumOf(store, ids, path) ==
    IF ids = {} THEN 0
    ELSE LET id == CHOOSE x \in ids : TRUE
         IN  store[id][path] + SumOf(store, ids \ {id}, path)

\* { $avg: '$path' } over a non-empty group
Avg(store, ids, path) == Fraction(SumOf(store, ids, path), Cardinality(ids))

\* an aggregate that groups every document, with no $match stage
Aggregate_noMatch(store) ==
    IF DOMAIN store = {} THEN <<>>
    ELSE <<[avgPrice |-> Avg(store, DOMAIN store, "precio"),
            avgKm |-> Avg(store, DOMAIN store, "kilometraje")]>>

\* Car.aggregate([{ $match: { isDeleted: false } }, { $group: { _id: null, ... } }]):
\* one group document, or none when nothing matches
Aggregate(store) ==
    LET ids == {id \in DOMAIN store : ~store[id].isDeleted}
    IN  IF ids = {} THEN <<>>
        ELSE <<[avgPrice |-> Avg(store, ids, "precio"),
                avgKm |-> Avg(store, ids, "kilometraje")]>>

\* stats[0]?.path
FirstGroup(stats, path) == IF stats = <<>> THEN None ELSE Some(stats[1][path])

\* the value passed on as it is, undefined included
OrZero_undefined(v) == IF v = None THEN None ELSE Get(v)

\* v || 0
OrZero(v) == IF v = None \/ Get(v) = Zero THEN Zero ELSE Get(v)

\* lines 252-258 and the controller's 200 response
StatsResponse(total, deleted, stats) ==
    [op |-> "getStats", status |-> 200, id |-> 0,
     message |-> "Estadisticas obtenidas exitosamente", cleanup |-> "none",
     data |-> [total |-> total, deleted |-> deleted, active |-> total - deleted,
               averagePrice |-> OrZero(FirstGroup(stats, "avgPrice")),
               averageKm |-> OrZero(FirstGroup(stats, "avgKm"))]]

\* the service has issued the two counts and the aggregate together
\* (Promise.all); the store runs them in any order
getStats(p) ==
    /\ pc[p] = Idle
    /\ pc' = [pc EXCEPT ![p] = [op |-> "getStats", total |-> None, deleted |-> None,
                                stats |-> None]]
    /\ UNCHANGED <<cars, files, now, nextId, nextFile, resp, deleted200,
                   users, catalogs, initialized>>

\* one of the three store operations has answered; the response goes out with
\* the last of them
StatsStep(p, next) ==
    /\ IF IsSome(next.total) /\ IsSome(next.deleted) /\ IsSome(next.stats)
       THEN /\ resp' = StatsResponse(Get(next.total), Get(next.deleted), Get(next.stats))
            /\ pc' = [pc EXCEPT ![p] = Idle]
       ELSE /\ pc' = [pc EXCEPT ![p] = next]
            /\ UNCHANGED resp
    /\ UNCHANGED <<cars, files, now, nextId, nextFile, deleted200,
                   users, catalogs, initialized>>

getStats_countAll(p) ==
    /\ pc[p].op = "getStats"
    /\ pc[p].total = None
    /\ StatsStep(p, [pc[p] EXCEPT !.total = Some(Cardinality(DOMAIN cars))])

\* the second count run with the filter of the aggregate
getStats_countDeleted_countsActive(p) ==
    /\ pc[p].op = "getStats"
    /\ pc[p].deleted = None
    /\ StatsStep(p, [pc[p] EXCEPT
                        !.deleted = Some(Cardinality({id \in DOMAIN cars : ~cars[id].isDeleted}))])

getStats_countDeleted(p) ==
    /\ pc[p].op = "getStats"
    /\ pc[p].deleted = None
    /\ StatsStep(p, [pc[p] EXCEPT
                        !.deleted = Some(Cardinality({id \in DOMAIN cars : cars[id].isDeleted}))])

getStats_aggregate(p) ==
    /\ pc[p].op = "getStats"
    /\ pc[p].stats = None
    /\ StatsStep(p, [pc[p] EXCEPT !.stats = Some(Aggregate(cars))])

(***************************************************************************)
(* The catch blocks of CarController: the response to an error thrown by   *)
(* the service call.  An error is what the catch block can see of it       *)
(* (instanceof Error, message) and the class of failure it is.             *)
(***************************************************************************)
NotFoundError == [class |-> "NotFound", isError |-> TRUE, message |-> NotFoundMessage]

\* a Mongoose ValidationError or CastError of save(), a SyntaxError of new RegExp
ValidationError == [class |-> "Validation", isError |-> TRUE, message |-> "validation failed"]

\* a rejected store operation (MongoNetworkError, MongoServerError)
StoreError == [class |-> "Store", isError |-> TRUE, message |-> "connection closed"]

\* the errors the service call of each handler can throw
Throws(op) ==
    CASE op = "getAllCars" -> {StoreError}
      [] op = "getCarById" -> {NotFoundError, StoreError}
      [] op = "createCar" -> {ValidationError, StoreError}
      [] op = "updateCar" -> {NotFoundError, ValidationError, StoreError}
      [] op = "deleteCar" -> {NotFoundError, StoreError}
      [] op = "getStats" -> {StoreError}
      [] op = "searchCars" -> {ValidationError, StoreError}

\* errorResponse, with the class of the failure it answers
Failure(op, status, message, error) ==
    [op |-> op, status |-> status, id |-> 0, message |-> message, cleanup |-> "none",
     failure |-> error.class]

\* catch of getAllCars (lines 61-73) and of createCar (lines 144-156)
BadRequestCatch(op, error, otherwise) ==
    IF error.isError THEN Failure(op, 400, error.message, error)
    ELSE Failure(op, 500, otherwise, error)

\* catch of getCarById (100-112), updateCar (189-201), deleteCar (225-237)
NotFoundCatch(op, error, otherwise) ==
    IF error.isError /\ error.message = NotFoundMessage
    THEN Failure(op, 404, error.message, error)
    ELSE Failure(op, 500, otherwise, error)

\* catch of getStats (252-260) and of searchCars (301-309)
ServerErrorCatch(op, error, otherwise) == Failure(op, 500, otherwise, error)

\* handler p's service call throws error and the catch block answers
Caught(p, response) ==
    /\ pc[p] = Idle
    /\ resp' = response
    /\ UNCHANGED <<cars, files, now, nextId, nextFile, pc, deleted200,
                   users, catalogs, initialized>>

getAllCars_catch(p, error) ==
    Caught(p, BadRequestCatch("getAllCars", error, "Failed to fetch cars"))

getCarById_catch(p, error) ==
    Caught(p, NotFoundCatch("getCarById", error, "Failed to fetch car"))

createCar_catch(p, error) ==
    Caught(p, BadRequestCatch("createCar", error, "Failed to create car"))

updateCar_catch(p, error) ==
    Caught(p, NotFoundCatch("updateCar", error, "Failed to update car"))

deleteCar_catch(p, error) ==
    Caught(p, NotFoundCatch("deleteCar", error, "Failed to delete car"))

getStats_catch(p, error) ==
    Caught(p, ServerErrorCatch("getStats", error, "Failed to get stats"))

searchCars_catch(p, error) ==
    Caught(p, ServerErrorCatch("searchCars", error, "Search failed"))

\* query strings of GET /api/cars that pass carFilterValidations
ListRequests ==
    { <<>>,
      [marca |-> <<"t">>, limit |-> <<"1">>] }

\* query strings of GET /api/cars/search
SearchRequests ==
    { <<>>,
      [q |-> <<"o">>] }

(***************************************************************************)
(* The steps of the handlers, grouped by endpoint.                         *)
(***************************************************************************)
Create ==
    \E p \in Procs, body \in CreateBodies, withFile \in BOOLEAN : createCar(p, body, withFile)

GetById == \E p \in Procs, id \in Ids : getCarById(p, id)

SoftDelete ==
    \/ \E p \in Procs, id \in Ids : deleteCar_findOne(p, id)
    \/ \E p \in Procs : deleteCar_save(p)

Update ==
    \/ \E p \in Procs, id \in Ids, body \in UpdateBodies, withFile \in BOOLEAN :
          updateCar_findOne(p, id, body, withFile)
    \/ \E p \in Procs : updateCar_deleteFile(p)
    \/ \E p \in Procs : updateCar_save(p)

HardDelete ==
    \/ \E p \in Procs, id \in Ids : hardDeleteCar_findById(p, id)
    \/ \E p \in Procs : hardDeleteCar_deleteFile(p)
    \/ \E p \in Procs : hardDeleteCar_findByIdAndDelete(p)

List ==
    \/ \E p \in Procs, query \in ListRequests : getAllCars(p, query)
    \/ \E p \in Procs : getAllCars_find(p)
    \/ \E p \in Procs : getAllCars_countDocuments(p)

Search == \E p \in Procs, query \in SearchRequests : searchCars(p, query)

\* every handler of the car service, interleaved
Next == Tick \/ Create \/ GetById \/ SoftDelete \/ Update \/ HardDelete \/ List \/ Search

Spec == Init /\ [][Next]_vars

\* the record lifecycle: the handlers that write, and lookup by id
LifecycleNext == Tick \/ Create \/ GetById \/ SoftDelete \/ Update \/ HardDelete

LifecycleSpec == Init /\ [][LifecycleNext]_vars

\* the operations through which a caller sees records, with the writes of the
\* routed endpoints
VisibilityNext == Tick \/ Create \/ GetById \/ SoftDelete \/ Update \/ List \/ Search

VisibilitySpec == Init /\ [][VisibilityNext]_vars

(***************************************************************************)
(* The query engine on its own: one GET /api/cars request against a store  *)
(* that no handler writes meanwhile.  The stores are drawn from documents  *)
(* the handlers above can leave in the collection.                         *)
(***************************************************************************)
MaxStore == 3
MaxLimit == 2
MaxPage == 3

SampleCar(marca, ano, precio, color, isDeleted) ==
    [marca |-> marca, modelo |-> Corolla, ano |-> ano, precio |-> precio,
     kilometraje |-> 100, color |-> color, email |-> Email, telefono |-> Telefono,
     foto |-> None,
     fechaAlta |-> 0, fechaModificacion |-> 0,
     fechaEliminacion |-> IF isDeleted THEN Some(0) ELSE None,
     isDeleted |-> isDeleted]

SampleCars ==
    { SampleCar(Toyota, 2020, 1, Some(Rojo), FALSE),
      SampleCar(Honda, 2021, 2, None, FALSE),
      SampleCar(Toyota, 2020, 2, None, FALSE),
      SampleCar(Toyota, 2021, 3, Some(Rojo), TRUE) }

SampleStores == UNION {[1 .. n -> SampleCars] : n \in 0 .. MaxStore}

\* a small number as the query string carries it
Numeral(n) == <<Digits[n + 1]>>

Year2020 == <<"2", "0", "2", "0">>

\* the filter parameters of a query string
FilterParams ==
    { <<>>,
      [marca |-> <<"t">>],
      [marca |-> <<>>, color |-> <<>>, modelo |-> <<>>],
      [modelo |-> <<"c", "O">>, color |-> <<"r">>],
      [ano |-> Year2020],
      [anio |-> Year2020],
      [minPrecio |-> Numeral(2)],
      [maxPrecio |-> Numeral(2)],
      [minPrecio |-> Numeral(1), maxPrecio |-> Numeral(2)],
      [marca |-> <<"o">>, ano |-> Year2020, maxPrecio |-> Numeral(1)] }

\* the paging and sorting parameters of a query string
PageParams ==
    {<<>>, [sortBy |-> "precio", sortOrder |-> "asc"]}
    \cup {[page |-> Numeral(page), limit |-> Numeral(limit)] :
            page \in 1 .. MaxPage, limit \in 1 .. MaxLimit}

QueryRequests == {Spread(f, g) : f \in FilterParams, g \in PageParams}

QueryHandler == "h1"

QueryInit ==
    /\ cars \in SampleStores
    /\ files = {}
    /\ now = 0
    /\ nextId = MaxStore + 1
    /\ nextFile = 1
    /\ pc = [p \in Procs |-> Idle]
    /\ resp = NoResponse
    /\ deleted200 = [id \in Ids |-> 0]
    /\ users = <<>>
    /\ catalogs = <<>>
    /\ initialized = 0

QueryNext ==
    \/ resp = NoResponse /\ \E query \in QueryRequests : getAllCars(QueryHandler, query)
    \/ getAllCars_find(QueryHandler)
    \/ getAllCars_countDocuments(QueryHandler)

QuerySpec == QueryInit /\ [][QueryNext]_vars

(***************************************************************************)
(* Search on its own: one GET /api/cars/search request against a store     *)
(* that no handler writes meanwhile.                                       *)
(***************************************************************************)
SearchTerms ==
    { <<>>,
      [q |-> <<>>],
      [q |-> <<"o">>],
      [q |-> <<"r", "O">>],
      [q |-> <<"z">>],
      [q |-> <<".">>],
      [q |-> <<"(">>] }

SearchInit == QueryInit

SearchNext == \E query \in SearchTerms : searchCars(QueryHandler, query)

SearchSpec == SearchInit /\ [][SearchNext]_vars

(***************************************************************************)
(* Stats on its own: one GET /api/cars/stats request against a store that  *)
(* no handler writes meanwhile.                                            *)
(***************************************************************************)
StatsInit == QueryInit

StatsNext ==
    \/ resp = NoResponse /\ getStats(QueryHandler)
    \/ getStats_countAll(QueryHandler)
    \/ getStats_countDeleted(QueryHandler)
    \/ getStats_aggregate(QueryHandler)

StatsSpec == StatsInit /\ [][StatsNext]_vars

(***************************************************************************)
(* Failures: one request whose service call throws, against any store.     *)
(***************************************************************************)
FailureInit == QueryInit

FailureNext ==
    \/ \E error \in Throws("getAllCars") : getAllCars_catch(QueryHandler, error)
    \/ \E error \in Throws("getCarById") : getCarById_catch(QueryHandler, error)
    \/ \E error \in Throws("createCar") : createCar_catch(QueryHandler, error)
    \/ \E error \in Throws("updateCar") : updateCar_catch(QueryHandler, error)
    \/ \E error \in Throws("deleteCar") : deleteCar_catch(QueryHandler, error)
    \/ \E error \in Throws("getStats") : getStats_catch(QueryHandler, error)
    \/ \E error \in Throws("searchCars") : searchCars_catch(QueryHandler, error)

FailureSpec == FailureInit /\ [][FailureNext]_vars

(***************************************************************************)
(* The middleware chains of the car routes (routes/car.routes.ts) and      *)
(* authenticate (auth.middleware.ts).                                      *)
(***************************************************************************)
CarOps == {"getAllCars", "getStats", "searchCars", "getCarById", "createCar",
           "updateCar", "deleteCar"}

\* chains whose first middleware is uploadSingle
Pipeline_uploadFirst(op) ==
    CASE op = "createCar" -> <<"uploadSingle", "authenticate", "createLimiter",
                               "uploadLimiter", "validate", "controller">>
      [] op = "updateCar" -> <<"uploadSingle", "authenticate", "uploadLimiter",
                               "validate", "controller">>
      [] OTHER -> <<"authenticate", "controller">>

\* the handlers each route registers, in order
Pipeline(op) ==
    CASE op = "getAllCars" -> <<"authenticate", "validate", "controller">>
      [] op = "getStats" -> <<"authenticate", "controller">>
      [] op = "searchCars" -> <<"authenticate", "controller">>
      [] op = "getCarById" -> <<"authenticate", "validate", "controller">>
      [] op = "createCar" -> <<"authenticate", "createLimiter", "uploadLimiter",
                               "uploadSingle", "validate", "controller">>
      [] op = "updateCar" -> <<"authenticate", "uploadLimiter", "uploadSingle",
                               "validate", "controller">>
      [] op = "deleteCar" -> <<"authenticate", "validate", "controller">>

\* Authorization headers: none, another scheme, and Bearer with a token that
\* jwt.verify accepts, finds expired or finds invalid
ValidHeader == Some([scheme |-> "Bearer", token |-> "valid"])

Headers ==
    { None,
      Some([scheme |-> "Basic", token |-> "valid"]),
      Some([scheme |-> "Bearer", token |-> "expired"]),
      Some([scheme |-> "Bearer", token |-> "invalid"]),
      ValidHeader }

\* authenticate: the message of its 401 response, or "" when it calls next()
authenticate(authHeader) ==
    IF authHeader = None \/ Get(authHeader).scheme /= "Bearer" THEN "No token provided"
    ELSE IF Get(authHeader).token = "expired" THEN "Token expired"
    ELSE IF Get(authHeader).token = "invalid" THEN "Invalid token"
    ELSE ""

RECURSIVE Through(_, _, _, _)
\* a request passed down a chain from its i-th handler on: st holds the
\* uploads directory, the upload counter and the handlers run so far; the
\* result adds the response of the handler that ended the chain (status 0:
\* the controller was reached)
Through(chain, i, request, st) ==
    LET mw == chain[i]
        run == [st EXCEPT !.reached = Append(st.reached, mw)]
    IN  IF mw = "controller" THEN [run EXCEPT !.status = 0]
        ELSE IF mw = "authenticate" /\ authenticate(request.header) /= ""
        THEN [run EXCEPT !.status = 401, !.message = authenticate(request.header)]
        ELSE IF mw = "uploadSingle" /\ request.withFile
        THEN Through(chain, i + 1, request,
                     [run EXCEPT !.files = st.files \cup {UploadedPath(st.nextFile)},
                                 !.nextFile = st.nextFile + 1])
        ELSE Through(chain, i + 1, request, run)

\* a request for operation op that passes the limiters and the validators
route(p, op, header, withFile) ==
    /\ pc[p] = Idle
    /\ withFile => op \in {"createCar", "updateCar"} /\ nextFile <= MaxFiles
    /\ LET out == Through(Pipeline(op), 1, [header |-> header, withFile |-> withFile],
                          [files |-> files, nextFile |-> nextFile, reached |-> <<>>,
                           status |-> 0, message |-> ""])
       IN  /\ files' = out.files
           /\ nextFile' = out.nextFile
           /\ resp' = [op |-> op, status |-> out.status, id |-> 0, message |-> out.message,
                       cleanup |-> "none", reached |-> out.reached, header |-> header,
                       withFile |-> withFile]
    /\ UNCHANGED <<cars, now, nextId, pc, deleted200,
                   users, catalogs, initialized>>

RouteInit == QueryInit

RouteNext ==
    \E op \in CarOps, header \in Headers, withFile \in BOOLEAN :
        route(QueryHandler, op, header, withFile)

RouteSpec == RouteInit /\ [][RouteNext]_vars

(***************************************************************************)
(* deleteFile on its own: calls with any identifier on a file system that  *)
(* holds files inside and outside the uploads directory.                   *)
(***************************************************************************)
\* files that may exist: two uploads, and two files outside the uploads
\* directory
FilePool ==
    { UploadedPath(1),
      Join(uploadsDir, "passwd"),
      <<"etc", "passwd">>,
      <<"app", "src", "f1">> }

\* identifiers passed as filePath, as path segments
AssetIdentifiers ==
    { UploadName(1),
      UploadName(2),
      <<"..", "..", "..", "etc", "passwd">>,
      <<"..", "f1">>,
      <<"..">>,
      <<>> }

DeleteFileInit ==
    /\ cars = <<>>
    /\ files \in SUBSET FilePool
    /\ now = 0
    /\ nextId = 1
    /\ nextFile = 1
    /\ pc = [p \in Procs |-> Idle]
    /\ resp = NoResponse
    /\ deleted200 = [id \in Ids |-> 0]
    /\ users = <<>>
    /\ catalogs = <<>>
    /\ initialized = 0

\* a call of deleteFile(filePath); the response records its outcome
deleteFile_call(filePath) ==
    /\ \E out \in deleteFile(files, filePath) :
        /\ files' = out.fs
        /\ resp' = [op |-> "deleteFile", status |-> 0, id |-> 0, message |-> out.result,
                    cleanup |-> out.result, filePath |-> filePath, threw |-> out.threw]
    /\ UNCHANGED <<cars, now, nextId, nextFile, pc, deleted200,
                   users, catalogs, initialized>>

DeleteFileNext == \E filePath \in AssetIdentifiers : deleteFile_call(filePath)

DeleteFileSpec == DeleteFileInit /\ [][DeleteFileNext]_vars

(***************************************************************************)
(* Properties.                                                             *)
(***************************************************************************)
SoftDeletedIds == {id \in DOMAIN cars : cars[id].isDeleted}

\* the ids of the page a find step of handler p has just read
PageRead(p) == IF pc'[p] = Idle THEN resp'.data ELSE Get(pc'[p].data)

\* C1: once a record is soft-deleted it stays soft-deleted, every List page and
\* every Search result read from then on leaves it out, and Get-by-id, Update
\* and Soft-delete that look it up from then on answer 404 Not Found and
\* change nothing.
C1_SoftDeletedInvisible ==
    [][ /\ \A id \in SoftDeletedIds : id \in DOMAIN cars' /\ cars'[id].isDeleted
        /\ \A p \in Procs :
            /\ getAllCars_find(p) =>
                  \A i \in DOMAIN PageRead(p) : PageRead(p)[i] \notin SoftDeletedIds
            /\ \A query \in SearchRequests :
                  searchCars(p, query) =>
                      \A i \in DOMAIN resp'.data : resp'.data[i] \notin SoftDeletedIds
            /\ \A id \in SoftDeletedIds :
                /\ getCarById(p, id) => resp' = NotFound("getCarById", id)
                /\ deleteCar_findOne(p, id) =>
                      resp' = NotFound("deleteCar", id) /\ pc'[p] = Idle
                /\ \A body \in UpdateBodies, withFile \in BOOLEAN :
                      updateCar_findOne(p, id, body, withFile) =>
                          resp' = NotFound("updateCar", id) /\ pc'[p] = Idle /\ cars' = cars
      ]_vars

\* a second Soft-delete of a soft-deleted record has just been answered 404
C1_Witness ==
    \E id \in SoftDeletedIds :
        /\ deleted200[id] = 1
        /\ resp = NotFound("deleteCar", id)

\* C2: of the Soft-delete requests on one record at most one is answered 200,
\* however the requests interleave.
C2_OneSoftDeleteSucceeds == \A id \in Ids : deleted200[id] <= 1

C4_PhotoReplaced ==
    [][ \A p \in Procs :
          /\ updateCar_deleteFile(p) =>
                /\ pc'[p].op = "updateCar" /\ pc'[p].step = "save"
                /\ pc'[p].cleanup /= "none"
                /\ resp' = resp
          /\ (updateCar_save(p) /\ ReplacesPhoto(pc[p].car, pc[p].data)
                /\ pc[p].id \in DOMAIN cars) =>
                /\ pc[p].cleanup /= "none"
                /\ resp'.op = "updateCar" /\ resp'.status = 200
                /\ cars'[pc[p].id].foto = Some(pc[p].data.foto)
      ]_vars

\* an Update replaced photo f1 by f2, the deletion of f1 threw, and the record
\* holds f2
C4_Witness ==
    /\ resp.op = "updateCar"
    /\ resp.status = 200
    /\ resp.cleanup = "unlinkFailed"
    /\ resp.id \in DOMAIN cars
    /\ cars[resp.id].foto = Some(UploadName(2))
    /\ UploadedPath(1) \in files

\* C9: every stored record with isDeleted = true has a deletion timestamp.
C9_DeletedHasTimestamp ==
    \A id \in DOMAIN cars : cars[id].isDeleted => IsSome(cars[id].fechaEliminacion)

\* C10: Create stores, under an id not in use, a record with
\* fechaAlta = fechaModificacion, isDeleted = false, fechaEliminacion = null
\* and, when no file was uploaded, foto = null, whatever the body carries.
C10_CreateStamps ==
    [][ \A p \in Procs, body \in CreateBodies, withFile \in BOOLEAN :
          createCar(p, body, withFile) =>
              /\ nextId \notin DOMAIN cars
              /\ nextId \in DOMAIN cars'
              /\ cars'[nextId].fechaAlta = cars'[nextId].fechaModificacion
              /\ ~cars'[nextId].isDeleted
              /\ cars'[nextId].fechaEliminacion = None
              /\ ~withFile => cars'[nextId].foto = None
      ]_vars

(***************************************************************************)
(* Properties of the query engine.                                         *)
(***************************************************************************)
Range(seq) == {seq[i] : i \in DOMAIN seq}

Max(a, b) == IF a >= b THEN a ELSE b

\* what a filter set asks of a record: each filter that is given and not the
\* empty string must hold
FilterHolds(car, f) ==
    /\ Truthy(f.marca) => RegexTest(Get(f.marca), Some(car.marca))
    /\ Truthy(f.modelo) => RegexTest(Get(f.modelo), Some(car.modelo))
    /\ Truthy(f.color) => RegexTest(Get(f.color), car.color)
    /\ IsSome(f.ano) => car.ano = Get(f.ano)
    /\ IsSome(f.minPrecio) => car.precio >= Get(f.minPrecio)
    /\ IsSome(f.maxPrecio) => car.precio <= Get(f.maxPrecio)

\* the non-deleted records a filter set selects
Expected(store, f) == {id \in DOMAIN store : ~store[id].isDeleted /\ FilterHolds(store[id], f)}

ActiveIds == {id \in DOMAIN cars : ~cars[id].isDeleted}

\* the length of page k of the listing a filter set selects
PageLength(store, f, k) ==
    Len(CHOOSE page \in FindPages(store, [f EXCEPT !.page = k]) : TRUE)

RECURSIVE SumOfPages(_, _, _)
SumOfPages(store, f, k) ==
    IF k = 0 THEN 0 ELSE PageLength(store, f, k) + SumOfPages(store, f, k - 1)

\* C5: a List response reports total = the number of non-deleted records the
\* filters select and totalPages = ceil(total / limit); its page holds
\* min(limit, total - (page - 1) * limit) records (none past the last page),
\* no page holds more than limit, and the lengths of pages 1..totalPages sum
\* to total.
C5_Pagination ==
    resp.op = "getAllCars" =>
        LET f == resp.filters
            pg == resp.pagination
        IN  /\ pg.total = Cardinality(Expected(cars, f))
            /\ pg.totalPages * pg.limit >= pg.total
            /\ (pg.totalPages - 1) * pg.limit < pg.total
            /\ Len(resp.data) = Min(pg.limit, Max(0, pg.total - (pg.page - 1) * pg.limit))
            /\ \A k \in 1 .. pg.totalPages :
                  \A page \in FindPages(cars, [f EXCEPT !.page = k]) : Len(page) <= pg.limit
            /\ SumOfPages(cars, f, pg.totalPages) = pg.total

\* page 1 with limit 2 of three matching records: two records, total 3, two pages
C5_Witness ==
    /\ resp.op = "getAllCars"
    /\ resp.pagination = [page |-> 1, limit |-> 2, total |-> 3, totalPages |-> 2]
    /\ Len(resp.data) = 2

NoFilter(f) ==
    /\ ~Truthy(f.marca) /\ ~Truthy(f.modelo) /\ ~Truthy(f.color)
    /\ f.ano = None /\ f.minPrecio = None /\ f.maxPrecio = None

\* C6: a List response holds only non-deleted records that satisfy every
\* filter given to the service, counts exactly those records, and holds all of
\* them when one page has room; a filter that is absent or the empty string
\* excludes nothing, so that without filters every non-deleted record is
\* selected.
C6_ListPredicate ==
    resp.op = "getAllCars" =>
        LET f == resp.filters
            pg == resp.pagination
        IN  /\ Range(resp.data) \subseteq Expected(cars, f)
            /\ pg.total = Cardinality(Expected(cars, f))
            /\ (pg.page = 1 /\ pg.limit >= pg.total) => Range(resp.data) = Expected(cars, f)
            /\ NoFilter(f) => pg.total = Cardinality(ActiveIds)

\* empty-string filters answered with every non-deleted record, one of them
\* without a color, from a store that also holds a soft-deleted record
C6_Witness ==
    /\ resp.op = "getAllCars"
    /\ resp.request = [marca |-> <<>>, color |-> <<>>, modelo |-> <<>>]
    /\ SoftDeletedIds /= {}
    /\ \E id \in ActiveIds : cars[id].color = None
    /\ Cardinality(ActiveIds) = 2
    /\ Range(resp.data) = ActiveIds

FilterNames == {"marca", "modelo", "ano", "anio", "color", "minPrecio", "maxPrecio"}

\* the price bounds a query string carries
PriceHolds(car, request) ==
    /\ "minPrecio" \in DOMAIN request => car.precio >= ParseInt(request.minPrecio)
    /\ "maxPrecio" \in DOMAIN request => car.precio <= ParseInt(request.maxPrecio)

\* C7: every record of a List response has price >= minPrecio when minPrecio
\* is given and price <= maxPrecio when maxPrecio is given, and a request
\* whose only filters are price bounds (or that has none) selects every
\* non-deleted record within the bounds.
C7_PriceRange ==
    resp.op = "getAllCars" =>
        /\ \A id \in Range(resp.data) : PriceHolds(cars[id], resp.request)
        /\ (DOMAIN resp.request \cap FilterNames) \subseteq {"minPrecio", "maxPrecio"} =>
              resp.pagination.total =
                  Cardinality({id \in ActiveIds : PriceHolds(cars[id], resp.request)})

\* minPrecio=2 alone answered with a record whose price is 2, from a store
\* that also holds a cheaper non-deleted record
C7_Witness ==
    /\ resp.op = "getAllCars"
    /\ resp.request = [minPrecio |-> Numeral(2)]
    /\ \E id \in Range(resp.data) : cars[id].precio = 2
    /\ \E id \in ActiveIds : cars[id].precio < 2

\* the year a query string asks for, under the name the route documents and
\* the controller reads (año) or the name of CarFilters and of the tests (anio)
HasYear(request) == "ano" \in DOMAIN request \/ "anio" \in DOMAIN request
YearOf(request) ==
    ParseInt(IF "ano" \in DOMAIN request THEN request.ano ELSE request.anio)

\* C8: a List request that carries a year filter is answered with records of
\* that year only, and when the year is its only filter it selects every
\* non-deleted record of that year.
C8_YearFilter ==
    (resp.op = "getAllCars" /\ HasYear(resp.request)) =>
        /\ \A id \in Range(resp.data) : cars[id].ano = YearOf(resp.request)
        /\ (DOMAIN resp.request \cap FilterNames) \subseteq {"ano", "anio"} =>
              resp.pagination.total =
                  Cardinality({id \in ActiveIds : cars[id].ano = YearOf(resp.request)})

(***************************************************************************)
(* Properties of Update, Hard-delete and Get-by-id.                        *)
(***************************************************************************)
\* the descriptive, contact and photo paths of a record
ContentPaths == {"marca", "modelo", "ano", "precio", "kilometraje", "color",
                 "email", "telefono", "foto"}

AssetOf(foto) == Join(uploadsDir, Basename(Get(foto)))

\* C12 as stated: when Hard-delete has removed a record, the record is absent
\* from the store and the file of the photo it held is absent from the
\* uploads directory.
C12_HardDeleteRemovesAsset ==
    [][ \A p \in Procs :
          hardDeleteCar_findByIdAndDelete(p) =>
              /\ pc[p].id \notin DOMAIN cars'
              /\ Truthy(pc[p].car.foto) => AssetOf(pc[p].car.foto) \notin files'
      ]_vars

\* C12 as the code has it: Hard-delete goes on for every id in the store,
\* soft-deleted or not, and is answered 404 with nothing changed for an id that
\* is not in the store; when the record it loaded has a photo it attempts to
\* delete that file and goes on whether or not the attempt threw; it ends with
\* the record absent and a success, and with the file absent unless its
\* deletion failed.
C12_HardDelete ==
    [][ \A p \in Procs :
          /\ \A id \in Ids :
                hardDeleteCar_findById(p, id) =>
                    IF id \in DOMAIN cars
                    THEN /\ pc'[p].op = "hardDeleteCar" /\ pc'[p].id = id
                         /\ resp' = resp
                    ELSE /\ resp' = NotFound("hardDeleteCar", id)
                         /\ pc'[p] = Idle
                         /\ cars' = cars /\ files' = files
          /\ hardDeleteCar_deleteFile(p) =>
                /\ Truthy(pc[p].car.foto)
                /\ pc'[p].step = "delete"
                /\ pc'[p].cleanup /= "none"
                /\ files' \subseteq files
                /\ files \ files' \subseteq {AssetOf(pc[p].car.foto)}
          /\ hardDeleteCar_findByIdAndDelete(p) =>
                /\ pc[p].id \notin DOMAIN cars'
                /\ resp'.op = "hardDeleteCar" /\ resp'.status = 200
                /\ Truthy(pc[p].car.foto) =>
                      /\ pc[p].cleanup /= "none"
                      /\ pc[p].cleanup /= "unlinkFailed" =>
                            AssetOf(pc[p].car.foto) \notin files'
      ]_vars

\* a soft-deleted record with a photo has been hard-deleted: the record and
\* the file are gone
C12_Witness ==
    /\ resp.op = "hardDeleteCar"
    /\ resp.status = 200
    /\ resp.cleanup = "removed"
    /\ resp.id \notin DOMAIN cars
    /\ deleted200[resp.id] = 1
    /\ files = {}
    /\ nextFile = 2

\* the answer to GET /api/cars/:id for an id without an Active record, the id
\* apart
GetByIdNotFound == [op |-> "getCarById", status |-> 404, message |-> "Auto no encontrado"]

\* C13: Get-by-id is answered 200 with the stored record exactly when the
\* store holds a record with that id that is not soft-deleted; for a
\* soft-deleted id and for an id the store does not hold the answer is the
\* same: status 404 and message 'Auto no encontrado'.  It changes nothing.
C13_GetByIdIndistinguishable ==
    [][ \A p \in Procs, id \in Ids :
          getCarById(p, id) =>
              /\ cars' = cars /\ files' = files
              /\ IF id \in DOMAIN cars /\ ~cars[id].isDeleted
                 THEN resp'.status = 200 /\ resp'.id = id /\ resp'.data = cars[id]
                 ELSE [op |-> resp'.op, status |-> resp'.status, message |-> resp'.message]
                          = GetByIdNotFound
      ]_vars

\* a Get-by-id of a soft-deleted record has just been answered 404
C13_Witness ==
    /\ resp = NotFound("getCarById", resp.id)
    /\ resp.id \in SoftDeletedIds

(***************************************************************************)
(* Properties of Search.                                                   *)
(***************************************************************************)
\* value contains term as a substring, letter case apart
Contains(term, value) ==
    /\ IsSome(value)
    /\ \E i \in 0 .. (Len(Get(value)) - Len(term)) :
          \A j \in 1 .. Len(term) : ToLower(term[j]) = ToLower(Get(value)[i + j])

\* the Active records whose brand, model or color contains the term
Hits(term) ==
    {id \in ActiveIds :
        \/ Contains(term, Some(cars[id].marca))
        \/ Contains(term, Some(cars[id].modelo))
        \/ Contains(term, cars[id].color)}

\* C14: a successful Search returns only Active records whose brand, model or
\* color contains the term, letter case apart; at most 20 of them, latest
\* fechaAlta first; all of them when they are 20 or fewer, and otherwise none
\* older than one it leaves out.
C14_SearchContains ==
    (resp.op = "searchCars" /\ resp.status = 200) =>
        LET term == Get(resp.term)
            data == resp.data
        IN  /\ Range(data) \subseteq Hits(term)
            /\ Len(data) <= SearchLimit
            /\ \A i, j \in DOMAIN data :
                  i < j => cars[data[i]].fechaAlta >= cars[data[j]].fechaAlta
            /\ Cardinality(Hits(term)) <= SearchLimit => Range(data) = Hits(term)
            /\ \A id \in Hits(term) \ Range(data) :
                  \A i \in DOMAIN data : cars[data[i]].fechaAlta >= cars[id].fechaAlta

\* C15: a Search without a term or with the empty term is answered 400
\* without a query to the store, and a Search with a non-empty term is answered
\* 200, with the empty list when no Active record contains the term.
C15_SearchTermRequired ==
    resp.op = "searchCars" =>
        IF ~Truthy(resp.term)
        THEN resp.status = 400 /\ ~resp.queried /\ resp.data = <<>>
        ELSE /\ resp.status = 200
             /\ resp.queried
             /\ Hits(Get(resp.term)) = {} => resp.data = <<>>

(***************************************************************************)
(* Properties of Stats.                                                    *)
(***************************************************************************)
\* fraction f is the mean of path over the records ids
IsMean(f, ids, path) == f[1] * Cardinality(ids) = SumOf(cars, ids, path) * f[2]

\* C16: Stats on a store nothing writes meanwhile reports total = the number
\* of records, deleted = the number of soft-deleted records, active =
\* total - deleted = the number of Active records, and as averagePrice and
\* averageKm the means of precio and kilometraje over the Active records.
C16_Stats ==
    resp.op = "getStats" =>
        LET d == resp.data
        IN  /\ resp.status = 200
            /\ d.total = Cardinality(DOMAIN cars)
            /\ d.deleted = Cardinality(SoftDeletedIds)
            /\ d.active = d.total - d.deleted
            /\ d.active = Cardinality(ActiveIds)
            /\ ActiveIds /= {} =>
                  /\ IsMean(d.averagePrice, ActiveIds, "precio")
                  /\ IsMean(d.averageKm, ActiveIds, "kilometraje")

\* Stats over Active records priced 1 and 2 and a soft-deleted record priced 3
C16_Witness ==
    /\ resp.op = "getStats"
    /\ resp.data.total = 3
    /\ resp.data.deleted = 1
    /\ resp.data.active = 2
    /\ resp.data.averagePrice = <<3, 2>>
    /\ \E id \in SoftDeletedIds : cars[id].precio = 3

\* C17: Stats on a store without an Active record is answered 200 with
\* averagePrice = 0 and averageKm = 0.
C17_StatsEmpty ==
    (resp.op = "getStats" /\ ActiveIds = {}) =>
        /\ resp.status = 200
        /\ resp.data.averagePrice = Zero
        /\ resp.data.averageKm = Zero

\* Stats over a store whose only records are soft-deleted
C17_Witness ==
    /\ resp.op = "getStats"
    /\ resp.status = 200
    /\ ActiveIds = {}
    /\ SoftDeletedIds /= {}
    /\ resp.data.deleted = resp.data.total
    /\ resp.data.averagePrice = Zero

(***************************************************************************)
(* Properties of the error responses.                                      *)
(***************************************************************************)
\* C18: the response to a failed car operation has the status class of the
\* failure: 404 for NotFound, 400 for a validation or bad-request failure, 5xx
\* for a store failure.
C18_FailureClass ==
    "failure" \in DOMAIN resp =>
        /\ resp.failure = "NotFound" => resp.status = 404
        /\ resp.failure = "Validation" => resp.status = 400
        /\ resp.failure = "Store" => resp.status \in 500 .. 599

(***************************************************************************)
(* Properties of deleteFile.                                               *)
(***************************************************************************)
\* an identifier with a directory-traversal segment
HasTraversal(filePath) == \E i \in DOMAIN filePath : filePath[i] = ".."

\* C19: deleteFile removes no file outside the uploads directory, and a call
\* with an identifier that has a traversal segment throws and removes nothing.
C19_DeleteFileSafe ==
    [][ \A filePath \in AssetIdentifiers :
          deleteFile_call(filePath) =>
              /\ \A f \in files \ files' : StartsWith(f, uploadsDir)
              /\ HasTraversal(filePath) => resp'.threw /\ files' = files
      ]_vars

(***************************************************************************)
(* Properties of the routes.                                               *)
(***************************************************************************)
\* C20: a request for any car operation whose Authorization header is not a
\* valid bearer token is answered 401 by authenticate, the first and only
\* handler of the chain to run, and changes neither the records nor the
\* uploads directory.
C20_Unauthenticated ==
    [][ \A p \in Procs, op \in CarOps, header \in Headers \ {ValidHeader},
           withFile \in BOOLEAN :
          route(p, op, header, withFile) =>
              /\ resp'.status = 401
              /\ resp'.reached = <<"authenticate">>
              /\ cars' = cars
              /\ files' = files
              /\ nextFile' = nextFile
      ]_vars

\* a POST with a file and an expired token has been answered 401 and nothing
\* was uploaded
C20_Witness ==
    /\ resp.op = "createCar"
    /\ resp.status = 401
    /\ resp.message = "Token expired"
    /\ resp.withFile
    /\ files = {}

(***************************************************************************)
(* Accounts: POST /api/auth/register.  The handler looks the email up,     *)
(* then saves a new user; the users collection has a unique index on       *)
(* email.                                                                  *)
(***************************************************************************)
\* String.prototype.toLowerCase on a string of the model
toLowerCase(str) == [i \in DOMAIN str |-> ToLower(str[i])]

EmailTaken == "El email ya esta registrado"

\* the message of the MongoServerError a unique index raises
DuplicateKey == "E11000 duplicate key error"

\* the emails a register request may carry
RegisterEmails ==
    { <<"a", "@", "x", ".", "y">>, <<"A", "@", "x", ".", "y">>,
      <<"b", "@", "x", ".", "y">>, <<"c", "@", "x", ".", "y">> }

\* registerValidations: the email reaches the controller in lower case
registerValidations(email) == toLowerCase(email)

\* a response of POST /api/auth/register, with the email it answers
AuthResponse(status, message, email) ==
    [op |-> "register", status |-> status, id |-> 0, message |-> message,
     cleanup |-> "none", email |-> email]

\* User.findOne({ email })
User_findOne(email) == {i \in DOMAIN users : users[i].email = email}

\* the catch block of AuthController.register on an Error with this message
register_catch(message, email) ==
    IF message = EmailTaken
    THEN AuthResponse(409, message, email)
    ELSE AuthResponse(400, message, email)

\* AuthService.register up to the answer of User.findOne
register_findOne(p, body) ==
    /\ pc[p] = Idle
    /\ LET email == registerValidations(body.email) IN
        IF User_findOne(email) /= {}
        THEN /\ resp' = register_catch(EmailTaken, email)
             /\ UNCHANGED pc
        ELSE /\ pc' = [pc EXCEPT ![p] = [op |-> "register", email |-> email]]
             /\ UNCHANGED resp
    /\ UNCHANGED <<cars, files, now, nextId, nextFile, deleted200,
                   users, catalogs, initialized>>

\* user.save(): the unique index refuses a second document with the email
User_save(email) ==
    IF User_findOne(email) /= {}
    THEN [threw |-> TRUE, users |-> users]
    ELSE [threw |-> FALSE, users |-> Append(users, [email |-> email, role |-> "user"])]

\* AuthService.register from user.save() to the response
register_save(p) ==
    /\ pc[p].op = "register"
    /\ LET email == pc[p].email
           saved == User_save(email) IN
        /\ users' = saved.users
        /\ resp' = IF saved.threw THEN register_catch(DuplicateKey, email)
                   ELSE AuthResponse(201, "Usuario registrado exitosamente", email)
    /\ pc' = [pc EXCEPT ![p] = Idle]
    /\ UNCHANGED <<cars, files, now, nextId, nextFile, deleted200,
                   catalogs, initialized>>

RegisterBodies == {[email |-> e] : e \in RegisterEmails}

AuthInit == Init

AuthNext ==
    \/ \E p \in Procs, body \in RegisterBodies : register_findOne(p, body)
    \/ \E p \in Procs : register_save(p)

AuthSpec == AuthInit /\ [][AuthNext]_vars

(***************************************************************************)
(* Properties of the accounts.                                             *)
(***************************************************************************)
\* a user holds the email
Held(email) == User_findOne(email) /= {}

\* C21: a register call whose email is already held by a user when it
\* answers, also when it looked the email up before the holder was saved, is
\* answered 409 Conflict and adds no user.
C21_DuplicateIsConflict ==
    [][ \A p \in Procs :
          /\ (register_save(p) /\ Held(pc[p].email)) =>
                 (resp'.status = 409 /\ users' = users)
          /\ \A body \in RegisterBodies :
                 (register_findOne(p, body) /\ Held(registerValidations(body.email))) =>
                     (resp'.status = 409 /\ users' = users)
      ]_vars

\* no two users hold the same email
C21_OneUserPerEmail ==
    \A i, j \in DOMAIN users : users[i].email = users[j].email => i = j

(***************************************************************************)
(* Catalogs: brands and their models.  A catalog document is               *)
(* [marca, modelos, isActive, createdAt, updatedAt]; marca has a unique    *)
(* index.                                                                  *)
(***************************************************************************)
\* the UTF-16 code units of the characters of the model, in increasing order
CodeUnits == <<" ", "-">> \o Digits \o UpperCase \o LowerCase

CharCode(c) == CHOOSE i \in DOMAIN CodeUnits : CodeUnits[i] = c

RECURSIVE Before(_, _)
\* a < b as the default comparison of Array.prototype.sort orders strings
Before(a, b) ==
    IF a = <<>> THEN b /= <<>>
    ELSE IF b = <<>> THEN FALSE
    ELSE IF Head(a) /= Head(b) THEN CharCode(Head(a)) < CharCode(Head(b))
    ELSE Before(Tail(a), Tail(b))

RECURSIVE Insert(_, _)
Insert(str, sorted) ==
    IF sorted = <<>> THEN <<str>>
    ELSE IF Before(str, Head(sorted)) THEN <<str>> \o sorted
    ELSE <<Head(sorted)>> \o Insert(str, Tail(sorted))

RECURSIVE sort(_)
\* Array.prototype.sort() of an array of strings
sort(names) ==
    IF names = <<>> THEN <<>> ELSE Insert(Head(names), sort(Tail(names)))

RECURSIVE trim(_)
\* String.prototype.trim
trim(str) ==
    IF str = <<>> THEN str
    ELSE IF Head(str) = " " THEN trim(Tail(str))
    ELSE IF str[Len(str)] = " " THEN trim(SubSeq(str, 1, Len(str) - 1))
    ELSE str

\* { marca: { $regex: new RegExp(`^${marca}$`, 'i') } } on the brand of one
\* document: the whole value must match, letter case ignored, "." matching
\* any character
BrandMatch(marca, value) ==
    /\ Len(value) = Len(marca)
    /\ \A j \in 1 .. Len(marca) : CharMatches(marca[j], value[j])

Modelo(nombre, isActive) == [nombre |-> nombre, isActive |-> isActive]

CatalogDoc(marca, modelos, isActive, createdAt, updatedAt) ==
    [marca |-> marca, modelos |-> modelos, isActive |-> isActive,
     createdAt |-> createdAt, updatedAt |-> updatedAt]

\* the default catalogs of initializeCatalogs
defaultCatalogs ==
    << [marca |-> <<"F", "o", "r", "d">>,
        modelos |-> <<<<"F", "o", "c", "u", "s">>,
                      <<"F", "u", "s", "i", "o", "n">>,
                      <<"M", "u", "s", "t", "a", "n", "g">>,
                      <<"E", "x", "p", "l", "o", "r", "e", "r">>,
                      <<"F", "-", "1", "5", "0">>,
                      <<"E", "s", "c", "a", "p", "e">>>>],
       [marca |-> <<"H", "o", "n", "d", "a">>,
        modelos |-> <<<<"C", "i", "v", "i", "c">>,
                      <<"A", "c", "c", "o", "r", "d">>,
                      <<"C", "R", "-", "V">>,
                      <<"P", "i", "l", "o", "t">>,
                      <<"F", "i", "t">>,
                      <<"O", "d", "y", "s", "s", "e", "y">>>>],
       [marca |-> <<"T", "o", "y", "o", "t", "a">>,
        modelos |-> <<<<"C", "o", "r", "o", "l", "l", "a">>,
                      <<"C", "a", "m", "r", "y">>,
                      <<"R", "A", "V", "4">>,
                      <<"H", "i", "g", "h", "l", "a", "n", "d", "e", "r">>,
                      <<"T", "a", "c", "o", "m", "a">>,
                      <<"P", "r", "i", "u", "s">>>>],
       [marca |-> <<"C", "h", "e", "v", "r", "o", "l", "e", "t">>,
        modelos |-> <<<<"S", "p", "a", "r", "k">>,
                      <<"A", "v", "e", "o">>,
                      <<"C", "r", "u", "z", "e">>,
                      <<"M", "a", "l", "i", "b", "u">>,
                      <<"E", "q", "u", "i", "n", "o", "x">>,
                      <<"T", "a", "h", "o", "e">>>>],
       [marca |-> <<"N", "i", "s", "s", "a", "n">>,
        modelos |-> <<<<"V", "e", "r", "s", "a">>,
                      <<"S", "e", "n", "t", "r", "a">>,
                      <<"A", "l", "t", "i", "m", "a">>,
                      <<"M", "a", "x", "i", "m", "a">>,
                      <<"R", "o", "g", "u", "e">>,
                      <<"P", "a", "t", "h", "f", "i", "n", "d", "e", "r">>>>],
       [marca |-> <<"V", "o", "l", "k", "s", "w", "a", "g", "e", "n">>,
        modelos |-> <<<<"J", "e", "t", "t", "a">>,
                      <<"P", "a", "s", "s", "a", "t">>,
                      <<"T", "i", "g", "u", "a", "n">>,
                      <<"A", "t", "l", "a", "s">>,
                      <<"G", "o", "l", "f">>,
                      <<"B", "e", "e", "t", "l", "e">>>>],
       [marca |-> <<"M", "a", "z", "d", "a">>,
        modelos |-> <<<<"M", "a", "z", "d", "a", "2">>,
                      <<"M", "a", "z", "d", "a", "3">>,
                      <<"M", "a", "z", "d", "a", "6">>,
                      <<"C", "X", "-", "3">>,
                      <<"C", "X", "-", "5">>,
                      <<"C", "X", "-", "9">>>>],
       [marca |-> <<"B", "M", "W">>,
        modelos |-> <<<<"S", "e", "r", "i", "e", " ", "1">>,
                      <<"S", "e", "r", "i", "e", " ", "3">>,
                      <<"S", "e", "r", "i", "e", " ", "5">>,
                      <<"X", "1">>,
                      <<"X", "3">>,
                      <<"X", "5">>>>] >>

MaxRuns == 2

\* the documents the tests of the catalog routes create
ToyotaFixture ==
    CatalogDoc(defaultCatalogs[3].marca,
               <<Modelo(defaultCatalogs[3].modelos[1], TRUE),
                 Modelo(defaultCatalogs[3].modelos[2], TRUE),
                 Modelo(<<"Y", "a", "r", "i", "s">>, FALSE)>>,
               TRUE, 0, 0)

HondaFixture ==
    CatalogDoc(defaultCatalogs[2].marca, <<Modelo(defaultCatalogs[2].modelos[1], TRUE)>>,
               TRUE, 0, 0)

\* a brand that was taken out of the catalog
MazdaInactive ==
    CatalogDoc(defaultCatalogs[7].marca, <<Modelo(defaultCatalogs[7].modelos[2], TRUE)>>,
               FALSE, 0, 0)

CatalogFixtures ==
    { <<>>, <<ToyotaFixture, HondaFixture>>, <<ToyotaFixture, MazdaInactive>> }

\* a response of a catalog route, with the brand it answers
CatalogResponse(op, status, message, marca, modelos) ==
    [op |-> op, status |-> status, id |-> 0, message |-> message,
     cleanup |-> "none", marca |-> marca, modelos |-> modelos]

\* Array.prototype.filter on a sequence
RECURSIVE ActiveModels(_)
ActiveModels(modelos) ==
    IF modelos = <<>> THEN <<>>
    ELSE IF Head(modelos).isActive
         THEN <<Head(modelos).nombre>> \o ActiveModels(Tail(modelos))
         ELSE ActiveModels(Tail(modelos))

\* Catalog.findOne / findOneAndUpdate: the first document, in natural order,
\* whose brand matches (and which is active, when the filter asks for it)
Catalog_findOne(marca, activeOnly) ==
    LET hits == {i \in DOMAIN catalogs :
                    /\ BrandMatch(marca, catalogs[i].marca)
                    /\ activeOnly => catalogs[i].isActive}
    IN IF hits = {} THEN None
       ELSE Some(CHOOSE i \in hits : \A j \in hits : i <= j)

\* GET /api/catalogs/models/:marca
getModelsByBrand(p, marca) ==
    /\ pc[p] = Idle
    /\ resp' =
        IF marca = <<>>
        THEN CatalogResponse("getModelsByBrand", 400, "Brand is required", marca, <<>>)
        ELSE IF ~RegexCompiles(marca)
        THEN CatalogResponse("getModelsByBrand", 404, "Invalid regular expression",
                             marca, <<>>)
        ELSE LET catalog == Catalog_findOne(marca, TRUE) IN
            IF catalog = None
            THEN CatalogResponse("getModelsByBrand", 404, "Marca no encontrada",
                                 marca, <<>>)
            ELSE CatalogResponse("getModelsByBrand", 200,
                                 "Modelos obtenidos exitosamente", marca,
                                 sort(ActiveModels(catalogs[Get(catalog)].modelos)))
    /\ UNCHANGED <<cars, files, now, nextId, nextFile, pc, deleted200,
                   users, catalogs, initialized>>

\* the update document of upsertCatalog, the mutant adding the models to
\* the ones the document has
UpsertUpdate_pushesModels(doc, entry, t) ==
    [doc EXCEPT !.marca = trim(entry.marca),
                !.modelos = doc.modelos \o [i \in DOMAIN entry.modelos |->
                                  Modelo(trim(entry.modelos[i]), TRUE)],
                !.isActive = TRUE,
                !.updatedAt = t]

\* the update document of upsertCatalog applied to a document: brand, models
\* and isActive are replaced, the timestamps plugin sets updatedAt
UpsertUpdate(doc, entry, t) ==
    [doc EXCEPT !.marca = trim(entry.marca),
                !.modelos = [i \in DOMAIN entry.modelos |->
                                  Modelo(trim(entry.modelos[i]), TRUE)],
                !.isActive = TRUE,
                !.updatedAt = t]

\* the unique index on marca refuses the value for every document but k
MarcaTaken(marca, k) ==
    \E j \in DOMAIN catalogs : j /= k /\ catalogs[j].marca = marca

\* POST /api/catalogs/initialize: initializeCatalogs starts its loop
initializeCatalogs(p) ==
    /\ pc[p] = Idle
    /\ initialized < MaxRuns
    /\ pc' = [pc EXCEPT ![p] = [op |-> "initializeCatalogs", i |-> 1, inserting |-> FALSE]]
    /\ UNCHANGED <<cars, files, now, nextId, nextFile, resp, deleted200,
                   users, catalogs, initialized>>

\* upsertCatalog returned for entry pc[p].i: the loop goes on, or the
\* controller answers 201 after the last entry
initializeCatalogs_continue(p) ==
    IF pc[p].i = Len(defaultCatalogs)
    THEN /\ pc' = [pc EXCEPT ![p] = Idle]
         /\ resp' = CatalogResponse("initializeCatalogs", 201,
                                    "Catalogos inicializados exitosamente", <<>>, <<>>)
         /\ initialized' = initialized + 1
    ELSE /\ pc' = [pc EXCEPT ![p] = [op |-> "initializeCatalogs", i |-> pc[p].i + 1,
                                    inserting |-> FALSE]]
         /\ UNCHANGED <<resp, initialized>>

\* upsertCatalog threw: the catch of the controller answers 500
initializeCatalogs_catch(p) ==
    /\ pc' = [pc EXCEPT ![p] = Idle]
    /\ resp' = CatalogResponse("initializeCatalogs", 500, "Failed to initialize catalogs",
                               defaultCatalogs[pc[p].i].marca, <<>>)
    /\ UNCHANGED initialized

\* findOneAndUpdate with upsert: the store looks for a matching document and
\* updates it; when there is none it goes on to insert one
upsertCatalog_findOneAndUpdate(p) ==
    /\ pc[p].op = "initializeCatalogs"
    /\ ~pc[p].inserting
    /\ LET entry == defaultCatalogs[pc[p].i]
           found == Catalog_findOne(entry.marca, FALSE) IN
        IF found = None
        THEN /\ pc' = [pc EXCEPT ![p].inserting = TRUE]
             /\ UNCHANGED <<catalogs, resp, initialized>>
        ELSE IF MarcaTaken(trim(entry.marca), Get(found))
        THEN /\ initializeCatalogs_catch(p)
             /\ UNCHANGED catalogs
        ELSE /\ catalogs' = [catalogs EXCEPT ![Get(found)] = UpsertUpdate(@, entry, now)]
             /\ initializeCatalogs_continue(p)
    /\ UNCHANGED <<cars, files, now, nextId, nextFile, deleted200, users>>

\* the insert of an upsert that found no document: the unique index on marca
\* refuses it when a document with the brand was inserted meanwhile
upsertCatalog_insert(p) ==
    /\ pc[p].op = "initializeCatalogs"
    /\ pc[p].inserting
    /\ LET entry == defaultCatalogs[pc[p].i] IN
        IF MarcaTaken(trim(entry.marca), 0)
        THEN /\ initializeCatalogs_catch(p)
             /\ UNCHANGED catalogs
        ELSE /\ catalogs' = Append(catalogs,
                    UpsertUpdate(CatalogDoc(<<>>, <<>>, TRUE, now, now), entry, now))
             /\ initializeCatalogs_continue(p)
    /\ UNCHANGED <<cars, files, now, nextId, nextFile, deleted200, users>>

\* the brands a request for models may name
BrandRequests ==
    { defaultCatalogs[3].marca,
      toLowerCase(defaultCatalogs[3].marca),
      <<"T", ".", "y", "o", "t", "a">>,
      defaultCatalogs[2].marca,
      defaultCatalogs[7].marca,
      <<"F", "e", "r", "r", "a", "r", "i">>,
      <<"(">> }

CatalogInit ==
    /\ cars = <<>>
    /\ files = {}
    /\ now = 0
    /\ nextId = 1
    /\ nextFile = 1
    /\ pc = [p \in Procs |-> Idle]
    /\ resp = NoResponse
    /\ deleted200 = [id \in Ids |-> 0]
    /\ users = <<>>
    /\ catalogs \in CatalogFixtures
    /\ initialized = 0

CatalogNext ==
    \/ Tick
    \/ \E p \in Procs : initializeCatalogs(p)
    \/ \E p \in Procs : upsertCatalog_findOneAndUpdate(p)
    \/ \E p \in Procs : upsertCatalog_insert(p)
    \/ \E p \in Procs, marca \in BrandRequests : getModelsByBrand(p, marca)

CatalogSpec == CatalogInit /\ [][CatalogNext]_vars

(***************************************************************************)
(* Properties of the catalogs.                                             *)
(***************************************************************************)
\* what a catalog entry says: its brand, its models and whether it is active
Entries(store) ==
    [i \in DOMAIN store |->
        [marca |-> store[i].marca, modelos |-> store[i].modelos,
         isActive |-> store[i].isActive]]

\* the store holds exactly one entry for the default brand, with its models
OneEntry(entry) ==
    /\ Cardinality({i \in DOMAIN catalogs : catalogs[i].marca = entry.marca}) = 1
    /\ \A i \in DOMAIN catalogs :
          catalogs[i].marca = entry.marca =>
              /\ catalogs[i].isActive
              /\ catalogs[i].modelos =
                    [k \in DOMAIN entry.modelos |-> Modelo(entry.modelos[k], TRUE)]

\* C22: initializeCatalogs is idempotent: once one call has returned, the
\* store holds one entry per default brand with the default models, and no
\* step of a further call changes the number of entries, their brands or
\* their models.
C22_InitializeIdempotent ==
    [][ initialized >= 1 =>
          /\ \A k \in DOMAIN defaultCatalogs : OneEntry(defaultCatalogs[k])
          /\ Entries(catalogs') = Entries(catalogs)
      ]_vars

\* two calls have returned, the second having rewritten an entry at a later
\* instant than the first created it
C22_Witness ==
    /\ initialized = 2
    /\ Len(catalogs) = Len(defaultCatalogs)
    /\ \E i \in DOMAIN catalogs :
          catalogs[i].createdAt = 0 /\ catalogs[i].updatedAt = 1

\* the active entries whose stored brand is the name
ExactBrand(marca) ==
    {i \in DOMAIN catalogs : catalogs[i].marca = marca /\ catalogs[i].isActive}

\* C23: getModelsByBrand answers 200 with exactly the active models of the
\* active brand whose stored name equals the requested name, and 404 when no
\* stored active brand has that name, a name differing only in letter case
\* included.
C23_ModelsOfExactBrand ==
    [][ \A p \in Procs, marca \in BrandRequests :
          getModelsByBrand(p, marca) =>
              IF ExactBrand(marca) = {}
              THEN resp'.status = 404
              ELSE /\ resp'.status = 200
                   /\ \E i \in ExactBrand(marca) :
                        /\ Len(resp'.modelos) =
                              Cardinality({k \in DOMAIN catalogs[i].modelos :
                                              catalogs[i].modelos[k].isActive})
                        /\ Range(resp'.modelos) =
                              {catalogs[i].modelos[k].nombre :
                                 k \in {k \in DOMAIN catalogs[i].modelos :
                                          catalogs[i].modelos[k].isActive}}
      ]_vars

(***************************************************************************)
(* Properties of the lifecycle under interleaving.                         *)
(***************************************************************************)
\* C24: when a Soft-delete of a record has been answered 200 before an Update
\* of the record writes, the Update is answered 404 and changes no field of
\* the record.
C24_UpdateOnlyFromActive ==
    [][ \A p \in Procs :
          (/\ updateCar_save(p)
           /\ pc[p].id \in DOMAIN cars
           /\ cars[pc[p].id].isDeleted
           /\ deleted200[pc[p].id] >= 1) =>
              /\ resp'.status = 404
              /\ cars' = cars
      ]_vars

\* C25: in every reachable state the photo of an Active record, when it is
\* not null, names a file that exists in the uploads directory; no operation
\* removes the file while the stored record still refers to it.
C25_ActivePhotoExists ==
    \A id \in DOMAIN cars :
        (IsActive(cars, id) /\ Truthy(cars[id].foto)) => AssetOf(cars[id].foto) \in files

\* C26: when no request is in flight, every file of the uploads directory is
\* the photo of some record in the store.
C26_NoOrphanedFile ==
    (\A p \in Procs : pc[p] = Idle) =>
        \A f \in files :
            \E id \in DOMAIN cars :
                Truthy(cars[id].foto) /\ AssetOf(cars[id].foto) = f

\* C27: the record a successful Soft-delete persists has fechaEliminacion and
\* fechaModificacion equal to one instant, so that fechaEliminacion >=
\* fechaModificacion right after the deletion.
C27_DeleteStampsOneInstant ==
    [][ \A p \in Procs :
          (deleteCar_save(p) /\ resp'.status = 200) =>
              /\ IsSome(cars'[pc[p].id].fechaEliminacion)
              /\ Get(cars'[pc[p].id].fechaEliminacion) >= cars'[pc[p].id].fechaModificacion
      ]_vars

C29_UpdateKeepsLifecycleFields ==
    [][ \A p \in Procs :
          (updateCar_save(p) /\ pc[p].id \in DOMAIN cars) =>
              LET id == pc[p].id IN
                  /\ id \in DOMAIN cars'
                  /\ cars'[id].fechaAlta = cars[id].fechaAlta
                  /\ cars'[id].isDeleted = cars[id].isDeleted
                  /\ cars'[id].fechaEliminacion = cars[id].fechaEliminacion
                  /\ cars'[id].fechaModificacion >= cars'[id].fechaAlta
      ]_vars

(***************************************************************************)
(* Statistics while other handlers write: GET /api/cars/stats interleaved  *)
(* with Create, Soft-delete and Hard-delete at every store operation.      *)
(***************************************************************************)
Stats ==
    \/ \E p \in Procs : getStats(p)
    \/ \E p \in Procs : getStats_countAll(p)
    \/ \E p \in Procs : getStats_countDeleted(p)
    \/ \E p \in Procs : getStats_aggregate(p)

ConcurrentStatsNext == Create \/ SoftDelete \/ HardDelete \/ Stats

ConcurrentStatsSpec == Init /\ [][ConcurrentStatsNext]_vars

\* C30 as stated: the counts of a Stats response are mutually consistent:
\* deleted does not exceed total and active is not negative.
C30_StatsConsistent ==
    (resp.op = "getStats" /\ resp.status = 200) =>
        /\ resp.data.deleted <= resp.data.total
        /\ resp.data.active >= 0

\* an answer of handler p's store operation in this step, as the handler
\* holds it afterwards or has sent it
Answered(p, field) ==
    IF pc'[p] = Idle THEN resp'.data[field] ELSE Get(pc'[p][field])

\* C30 as the code has it: each count is right for the store at the instant
\* it is read (total is the number of records, deleted the number of
\* soft-deleted records, which does not exceed the number of records at that
\* instant), the two instants may differ, and active is total - deleted of
\* the two answers, so that it lies between -deleted and total.
C30_CountsPerRead ==
    [][ \A p \in Procs :
          /\ getStats_countAll(p) =>
                Answered(p, "total") = Cardinality(DOMAIN cars)
          /\ getStats_countDeleted(p) =>
                /\ Answered(p, "deleted") = Cardinality(SoftDeletedIds)
                /\ Answered(p, "deleted") <= Cardinality(DOMAIN cars)
          /\ ((getStats_countAll(p) \/ getStats_countDeleted(p) \/ getStats_aggregate(p))
                /\ pc'[p] = Idle) =>
                /\ resp'.data.active = resp'.data.total - resp'.data.deleted
                /\ resp'.data.active >= 0 - resp'.data.deleted
                /\ resp'.data.active <= resp'.data.total
      ]_vars

\* a Stats call counted the records of the empty store, a record was created
\* and soft-deleted, and the call was answered with deleted above total
C30_Witness ==
    /\ resp.op = "getStats"
    /\ resp.status = 200
    /\ resp.data.total = 0
    /\ resp.data.deleted = 1
    /\ resp.data.active = -1

====
